---- MODULE Spec2Model ----
(***************************************************************************)
(* base_task.c: a single-threaded LITMUS^RT periodic task that decodes a   *)
(* video file, ten packets per job.                                        *)
(*                                                                         *)
(* The program is one thread of control; pc is its position in main() or   *)
(* job(), named after the source line it is about to execute.  Every call  *)
(* into liblitmus or libav* is an external call: its result is drawn from  *)
(* the results the call can return.                                        *)
(*                                                                         *)
(* Two specifications:                                                     *)
(*   Spec    main() from its entry.  The stream check of line 131,         *)
(*           `if (vsi = -1)`, is an assignment whose value is -1, so every *)
(*           run that reaches it returns -1 at line 133.                   *)
(*   SpecRT  main() from line 135 on, started in the states the stream     *)
(*           search of lines 124-130 leaves when it has found a video      *)
(*           stream: codec setup, admission, the release/job loop, job().  *)
(* The source has three identifiers that do not resolve (`stream` at line  *)
(* 126, `pFrmaeRGB` at line 226, `index` at line 231); they are read as    *)
(* the declared names `streams`, `pFrameRGB` and `ind`.                    *)
(***************************************************************************)
EXTENDS Integers, Sequences, FiniteSets, TLC

\* ---------------------------------------------------------------- bounds
MaxStreams == 2      \* streams in the input file
MaxPackets == 25     \* packets in the input file
MaxJobs    == 3      \* job invocations explored

\* ------------------------------------------------------ program constants
BATCH == 10          \* the window of job(): i < ind + 10, ind += 10

CodecTypes == {"VIDEO", "AUDIO"}
Rets       == {0, -1}

VARIABLES
    pc,               \* position in main()/job(), or "exited" / "crashed"
    argc,             \* main's argc
    streams,          \* pFormatCtx->streams[k]->codec->codec_type, k = 0..
    main_i,           \* main's local i (line 82)
    vsi,              \* global vsi (line 56)
    held,             \* resources acquired and not released, among input,
                      \* codec, pFrame, pFrameRGB and buffer
    img_convert_ctx,  \* global of line 54: "NULL" or "ctx"
    len,              \* packets in the input
    pos,              \* packets read so far
    ioError,          \* the input's I/O context has recorded a read error
    pktLive,          \* the global packet holds data not yet av_free_packet'ed
    stream_index,     \* packet.stream_index
    frameFinished,    \* global frameFinished (line 55)
    i,                \* job's local i
    ind,              \* global ind (line 55)
    do_exit,          \* main's local do_exit
    mode,             \* the kernel's mode of the task
    called,           \* scheduler calls made so far, among init_litmus,
                      \* set_rt_task_param, task_mode_rt, sleep_next_period
                      \* and task_mode_bg
    failed,           \* scheduler calls whose last result was not 0
    nSleep,           \* sleep_next_period() calls returned
    nJobs,            \* job() invocations started
    nRet,             \* job() invocations returned
    ncalls,           \* av_read_frame calls of the current job() invocation
    nread,            \* successful av_read_frame calls of that invocation
    nbodies,          \* loop bodies completed in that invocation
    nframes,          \* frames decoded and converted in that invocation
    events,           \* what the producer reported in that invocation
    bgCalls,          \* task_mode(BACKGROUND_TASK) calls
    exitCode          \* value returned by main (meaningful when pc = "exited")

vars == <<pc, argc, streams, main_i, vsi, held, img_convert_ctx,
          len, pos, ioError, pktLive, stream_index, frameFinished, i, ind, do_exit,
          mode, called, failed, nSleep, nJobs, nRet, ncalls, nread, nbodies,
          nframes, events, bgCalls, exitCode>>

setupVars == <<argc, streams, main_i, vsi, held>>
fileVars  == <<len, pos, ioError, pktLive, stream_index, frameFinished>>
jobVars   == <<i, ind, ncalls, nread, nbodies, nframes, events>>
schedVars == <<mode, called, failed, bgCalls>>
countVars == <<nSleep, nJobs, nRet>>

\* Input lengths explored: empty, one packet, one packet more than a window
\* of job(), and the longest.
PacketCounts == {0, 1, BATCH + 1, MaxPackets}

StreamSeqs == UNION {[1..n -> CodecTypes] : n \in 0..MaxStreams}

\* Lines 124-130: index of the first video stream, -1 when there is none.
RECURSIVE FirstVideoFrom(_, _)
FirstVideoFrom(s, k) ==
    IF k > Len(s) THEN -1
    ELSE IF s[k] = "VIDEO" THEN k - 1
    ELSE FirstVideoFrom(s, k + 1)

FirstVideo(s) == FirstVideoFrom(s, 1)

\* `return v` in main: the process exits with what it holds still acquired.
Return(v) ==
    /\ pc' = "exited"
    /\ exitCode' = v

\* The globals and locals as the C runtime initialises them (lines 48-56);
\* the task is in background mode upon startup (line 100).
Globals ==
    /\ img_convert_ctx = "NULL"
    /\ pos = 0
    /\ ioError = FALSE
    /\ pktLive = FALSE
    /\ stream_index = 0
    /\ frameFinished = 0
    /\ i = 0
    /\ ind = 0
    /\ do_exit = 0
    /\ mode = "Background"
    /\ called = {}
    /\ failed = {}
    /\ nSleep = 0
    /\ nJobs = 0
    /\ nRet = 0
    /\ ncalls = 0
    /\ nread = 0
    /\ nbodies = 0
    /\ nframes = 0
    /\ events = {}
    /\ bgCalls = 0
    /\ exitCode = 0

Init ==
    /\ pc = "L106"
    /\ argc \in {1, 2}
    /\ streams \in StreamSeqs
    /\ len \in PacketCounts
    /\ main_i = 0
    /\ vsi = 0
    /\ held = {}
    /\ Globals

\* Lines 106-109: the usage check.
Usage ==
    /\ pc = "L106"
    /\ IF argc < 2
       THEN Return(0)
       ELSE pc' = "L116" /\ UNCHANGED exitCode
    /\ UNCHANGED <<setupVars, img_convert_ctx, fileVars, jobVars, do_exit,
                   schedVars, countVars>>

\* Lines 115-119: avformat_open_input.
OpenInput ==
    /\ pc = "L116"
    /\ \E r \in Rets :
         IF r # 0
         THEN Return(-1) /\ UNCHANGED held
         ELSE pc' = "L120" /\ held' = held \cup {"input"} /\ UNCHANGED exitCode
    /\ UNCHANGED <<argc, streams, main_i, vsi, img_convert_ctx,
                   fileVars, jobVars, do_exit, schedVars, countVars>>

\* Lines 120-124: avformat_find_stream_info, then vsi = -1 and i = 0.
FindStreamInfo ==
    /\ pc = "L120"
    /\ \E r \in Rets :
         IF r < 0
         THEN Return(-1) /\ UNCHANGED <<vsi, main_i>>
         ELSE pc' = "L125" /\ vsi' = -1 /\ main_i' = 0 /\ UNCHANGED exitCode
    /\ UNCHANGED <<argc, streams, held, img_convert_ctx,
                   fileVars, jobVars, do_exit, schedVars, countVars>>

\* Lines 125-130: one evaluation of the for loop's condition and body.
StreamLoop ==
    /\ pc = "L125"
    /\ IF main_i < Len(streams)
       THEN IF streams[main_i + 1] = "VIDEO"
            THEN vsi' = main_i /\ pc' = "L131" /\ UNCHANGED main_i
            ELSE main_i' = main_i + 1 /\ UNCHANGED <<vsi, pc>>
       ELSE pc' = "L131" /\ UNCHANGED <<vsi, main_i>>
    /\ UNCHANGED <<argc, streams, held, img_convert_ctx,
                   fileVars, jobVars, do_exit, schedVars, countVars, exitCode>>

\* StreamCheck with the comparison `vsi == -1` in place of the assignment.
StreamCheckCompares ==
    /\ pc = "L131"
    /\ IF vsi = -1
       THEN Return(-1)
       ELSE pc' = "L135" /\ UNCHANGED exitCode
    /\ UNCHANGED <<setupVars, img_convert_ctx, fileVars, jobVars, do_exit,
                   schedVars, countVars>>

\* Lines 131-134: `if (vsi = -1)` assigns -1 to vsi and tests the value
\* assigned, which is not 0.
StreamCheck ==
    /\ pc = "L131"
    /\ vsi' = -1
    /\ IF vsi' # 0
       THEN Return(-1)
       ELSE pc' = "L135" /\ UNCHANGED exitCode
    /\ UNCHANGED <<argc, streams, main_i, held, img_convert_ctx,
                   fileVars, jobVars, do_exit, schedVars, countVars>>

Next ==
    \/ Usage
    \/ OpenInput
    \/ FindStreamInfo
    \/ StreamLoop
    \/ StreamCheck

Spec == Init /\ [][Next]_vars

\* ------------------------------------------------------------------------
\* main() from line 135: codec setup, admission, the release/job loop.

\* The state at line 135 when the search of lines 124-130 found a video
\* stream: the input is open, main_i and vsi index the first video stream.
InitRT ==
    /\ pc = "L135"
    /\ argc = 2
    /\ streams \in {s \in StreamSeqs : FirstVideo(s) >= 0}
    /\ len \in PacketCounts
    /\ main_i = FirstVideo(streams)
    /\ vsi = FirstVideo(streams)
    /\ held = {"input"}
    /\ Globals

\* Lines 135-140: avcodec_find_decoder; NULL means unsupported codec.
FindDecoder ==
    /\ pc = "L135"
    /\ \E found \in BOOLEAN :
         IF ~found
         THEN Return(-1)
         ELSE pc' = "L141" /\ UNCHANGED exitCode
    /\ UNCHANGED <<setupVars, img_convert_ctx, fileVars, jobVars, do_exit,
                   schedVars, countVars>>

\* Lines 141-144: avcodec_open2.
OpenCodec ==
    /\ pc = "L141"
    /\ \E r \in Rets :
         IF r < 0
         THEN Return(-1) /\ UNCHANGED held
         ELSE pc' = "L150" /\ held' = held \cup {"codec"} /\ UNCHANGED exitCode
    /\ UNCHANGED <<argc, streams, main_i, vsi, img_convert_ctx,
                   fileVars, jobVars, do_exit, schedVars, countVars>>

\* Lines 145-152: the two av_frame_alloc calls, of which only pFrameRGB is
\* tested, then av_malloc of the conversion buffer and avpicture_fill.
\* Nothing assigns img_convert_ctx.
AllocFrames ==
    /\ pc = "L150"
    /\ \E rgb \in BOOLEAN :
         IF ~rgb
         THEN /\ Return(-1)
              /\ held' = held \cup {"pFrame"}
         ELSE /\ pc' = "L160"
              /\ held' = held \cup {"pFrame", "pFrameRGB", "buffer"}
              /\ UNCHANGED exitCode
    /\ UNCHANGED <<argc, streams, main_i, vsi, img_convert_ctx,
                   fileVars, jobVars, do_exit, schedVars, countVars>>

\* The CALL macro of lines 38-45: the result is printed, nothing else.
CALL(name, ret) ==
    /\ called' = called \cup {name}
    /\ failed' = IF ret # 0 THEN failed \cup {name} ELSE failed \ {name}

\* Line 160: CALL( init_litmus() ).
InitLitmus ==
    /\ pc = "L160"
    /\ \E r \in Rets : CALL("init_litmus", r)
    /\ pc' = "L170"
    /\ UNCHANGED <<setupVars, img_convert_ctx, fileVars, jobVars, do_exit,
                   mode, bgCalls, countVars, exitCode>>

\* SetRtTaskParam with a successful admission also switching the task to
\* real-time mode.
SetRtTaskParamEnters ==
    /\ pc = "L170"
    /\ \E r \in Rets :
         /\ CALL("set_rt_task_param", r)
         /\ mode' = IF r = 0 THEN "RealTime" ELSE mode
    /\ pc' = "L176"
    /\ UNCHANGED <<setupVars, img_convert_ctx, fileVars, jobVars, do_exit,
                   bgCalls, countVars, exitCode>>

\* Line 170: CALL( set_rt_task_param(gettid(), &param) ).
SetRtTaskParam ==
    /\ pc = "L170"
    /\ \E r \in Rets : CALL("set_rt_task_param", r)
    /\ pc' = "L176"
    /\ UNCHANGED <<setupVars, img_convert_ctx, fileVars, jobVars, do_exit,
                   mode, bgCalls, countVars, exitCode>>

\* Line 176: CALL( task_mode(LITMUS_RT_TASK) ); the task is real-time
\* afterwards if the call did not fail (line 178).  The kernel admits only a
\* task whose parameters were installed, so the call fails when
\* set_rt_task_param failed.
TaskModeRT ==
    /\ pc = "L176"
    /\ \E r \in IF "set_rt_task_param" \in failed THEN {-1} ELSE Rets :
         /\ CALL("task_mode_rt", r)
         /\ mode' = IF r = 0 THEN "RealTime" ELSE mode
    /\ pc' = "L188"
    /\ UNCHANGED <<setupVars, img_convert_ctx, fileVars, jobVars, do_exit,
                   bgCalls, countVars, exitCode>>

\* SleepNextPeriod with a failed wait treated as fatal: main returns -1
\* instead of invoking the job.
SleepNextPeriodAborts ==
    /\ pc = "L188"
    /\ nJobs < MaxJobs
    /\ \E r \in Rets :
         /\ CALL("sleep_next_period", r)
         /\ IF r # 0
            THEN Return(-1)
            ELSE pc' = "L190" /\ UNCHANGED exitCode
    /\ nSleep' = nSleep + 1
    /\ UNCHANGED <<setupVars, img_convert_ctx, fileVars, jobVars, do_exit,
                   mode, bgCalls, nJobs, nRet>>

\* Line 188: sleep_next_period(); its result is dropped.
SleepNextPeriod ==
    /\ pc = "L188"
    /\ nJobs < MaxJobs
    /\ \E r \in Rets : CALL("sleep_next_period", r)
    /\ nSleep' = nSleep + 1
    /\ pc' = "L190"
    /\ UNCHANGED <<setupVars, img_convert_ctx, fileVars, jobVars, do_exit,
                   mode, bgCalls, nJobs, nRet, exitCode>>

\* Lines 190, 215-218: main calls job(), which starts with i = ind.
JobEnter ==
    /\ pc = "L190"
    /\ nJobs' = nJobs + 1
    /\ i' = ind
    /\ ncalls' = 0
    /\ nread' = 0
    /\ nbodies' = 0
    /\ nframes' = 0
    /\ events' = {}
    /\ pc' = "J219"
    /\ UNCHANGED <<setupVars, img_convert_ctx, fileVars, ind, do_exit,
                   schedVars, nSleep, nRet, exitCode>>

\* Line 219, the loop condition
\*     av_read_frame(pFormatCtx, &packet) >= 0 && i < ind + 10
\* av_read_frame is called first; the window is tested only when it
\* succeeded, with the packet already read.
ReadFrameOk ==
    /\ pc = "J219"
    /\ pos < len
    /\ ~ioError
    /\ pos' = pos + 1
    /\ pktLive' = TRUE
    /\ \E s \in 0..(Len(streams) - 1) : stream_index' = s
    /\ ncalls' = ncalls + 1
    /\ nread' = nread + 1
    /\ pc' = IF i < ind + BATCH THEN "J220" ELSE "J231"
    /\ UNCHANGED <<setupVars, img_convert_ctx, len, ioError, frameFinished,
                   i, ind, nbodies, nframes, events, do_exit, schedVars,
                   countVars, exitCode>>

\* Line 219: av_read_frame returns a negative value at the end of the input.
ReadFrameEof ==
    /\ pc = "J219"
    /\ pos = len
    /\ ncalls' = ncalls + 1
    /\ events' = events \cup {"eof"}
    /\ pc' = "J231"
    /\ UNCHANGED <<setupVars, img_convert_ctx, fileVars, i, ind, nread,
                   nbodies, nframes, do_exit, schedVars, countVars, exitCode>>

\* Line 219: av_read_frame returns a negative value on a read error.  The
\* I/O context keeps the error, so the reads after it fail as well.
ReadFrameError ==
    /\ pc = "J219"
    /\ pos < len
    /\ ioError' = TRUE
    /\ ncalls' = ncalls + 1
    /\ events' = events \cup {"read_error"}
    /\ pc' = "J231"
    /\ UNCHANGED <<setupVars, img_convert_ctx, len, pos, pktLive,
                   stream_index, frameFinished, i, ind, nread, nbodies,
                   nframes, do_exit, schedVars, countVars, exitCode>>

\* Advance with the i++ of line 223 left out.
AdvanceByOne(scaled) == 1

\* What one loop body adds to i: the i++ of the for statement (line 219),
\* and the i++ of line 223 when a frame was finished.
Advance(scaled) == IF scaled THEN 2 ELSE 1

\* What avcodec_decode_video2 can do with a packet: complete a frame, need
\* more data, or fail (its result is dropped at line 221).
DecodeOutcomes == {"frame", "none", "error"}

\* Lines 220-230 and the i++ of the for statement.  sws_scale is handed
\* img_convert_ctx; a NULL there is undefined behaviour: the process is
\* killed by the dereference, or goes on.
JobBody ==
    /\ pc = "J220"
    /\ \E d \in DecodeOutcomes, ub \in {"continue", "crash"} :
         LET video    == stream_index = vsi
             finished == IF video THEN (IF d = "frame" THEN 1 ELSE 0)
                                  ELSE frameFinished
             scaled   == video /\ finished # 0
             undef    == scaled /\ img_convert_ctx = "NULL"
         IN  /\ video \/ d = "none"
             /\ undef \/ ub = "continue"
             /\ frameFinished' = finished
             /\ events' = IF video /\ d = "error"
                          THEN events \cup {"decode_error"} ELSE events
             /\ IF ub = "crash"
                THEN /\ pc' = "crashed"
                     /\ UNCHANGED <<i, pktLive, nbodies, nframes>>
                ELSE /\ pc' = "J219"
                     /\ i' = i + Advance(scaled)
                     /\ nbodies' = nbodies + 1
                     /\ nframes' = IF scaled THEN nframes + 1 ELSE nframes
                     /\ pktLive' = FALSE
    /\ UNCHANGED <<setupVars, img_convert_ctx, len, pos, ioError,
                   stream_index, ind, ncalls, nread, do_exit, schedVars,
                   countVars, exitCode>>

\* Lines 231-233: ind += 10; return 0.  Line 190: do_exit = job().
JobReturn ==
    /\ pc = "J231"
    /\ ind' = ind + BATCH
    /\ do_exit' = 0
    /\ nRet' = nRet + 1
    /\ pc' = "L191"
    /\ UNCHANGED <<setupVars, img_convert_ctx, fileVars, i, ncalls, nread,
                   nbodies, nframes, events, schedVars, nSleep, nJobs,
                   exitCode>>

\* LoopTest with the loop's back edge landing on the job call of line 190
\* instead of the wait of line 188.
LoopTestSkipsWait ==
    /\ pc = "L191"
    /\ nJobs < MaxJobs
    /\ pc' = IF do_exit = 0 THEN "L190" ELSE "exited"
    /\ UNCHANGED <<setupVars, img_convert_ctx, fileVars, jobVars, do_exit,
                   schedVars, countVars, exitCode>>

\* Line 191: while (!do_exit) goes back to line 188.  Otherwise lines
\* 198-211: CALL( task_mode(BACKGROUND_TASK) ), the five releases, return 0.
LoopTest ==
    /\ pc = "L191"
    /\ IF do_exit = 0
       THEN /\ pc' = "L188"
            /\ UNCHANGED <<held, schedVars, exitCode>>
       ELSE /\ \E r \in Rets :
                 /\ CALL("task_mode_bg", r)
                 /\ mode' = IF r = 0 THEN "Background" ELSE mode
            /\ bgCalls' = bgCalls + 1
            /\ held' = {}
            /\ Return(0)
    /\ UNCHANGED <<argc, streams, main_i, vsi, img_convert_ctx,
                   fileVars, jobVars, do_exit, countVars>>

NextRT ==
    \/ FindDecoder
    \/ OpenCodec
    \/ AllocFrames
    \/ InitLitmus
    \/ SetRtTaskParam
    \/ TaskModeRT
    \/ SleepNextPeriod
    \/ JobEnter
    \/ ReadFrameOk
    \/ ReadFrameEof
    \/ ReadFrameError
    \/ JobBody
    \/ JobReturn
    \/ LoopTest

SpecRT == InitRT /\ [][NextRT]_vars

\* The process has ended: main returned, or a signal killed it.
Exited == pc \in {"exited", "crashed"}

\* The exit status the parent sees: main's value as a byte, or 128 + SIGSEGV.
ExitStatus == IF pc = "crashed" THEN 139 ELSE exitCode % 256

\* ------------------------------------------------------------------------
\* Properties.

\* task_mode(LITMUS_RT_TASK) was called and returned 0.
EnteredRT == "task_mode_rt" \in called \ failed

\* connect, admit, enter and exit all returned 0 and the loop ended on the
\* end of the stream.
CleanCompletion ==
    /\ {"init_litmus", "set_rt_task_param", "task_mode_rt", "task_mode_bg"}
           \subseteq called \ failed
    /\ "eof" \in events

C8_ExitStatus ==
    Exited => /\ (ExitStatus = 0) <=> CleanCompletion
              /\ (failed \ {"sleep_next_period"}) # {} => ExitStatus # 0

\* C9: whenever the process has ended, every resource it acquired has been
\* released.
C9_AllReleased ==
    Exited => held = {}

\* C10: waits and jobs strictly alternate: a job starts only when exactly one
\* sleep_next_period() has returned since the previous job returned, and no
\* second wait is made before the job of the first has returned.
C10_StrictAlternation ==
    /\ nRet <= nJobs
    /\ nJobs <= nSleep
    /\ nSleep <= nRet + 1
    /\ pc \in {"J219", "J220", "J231"} => (nJobs = nSleep /\ nRet = nJobs - 1)
    /\ pc = "L190" => (nSleep = nJobs + 1 /\ nRet = nJobs)

\* C10 witness: two jobs have run and returned and the third period has been
\* released.
C10_Witness ==
    pc = "L190" /\ nSleep = 3 /\ nJobs = 2 /\ nRet = 2

\* main returned at line 133, after printing "No stream found": line 124
\* has set vsi to -1 and line 135 was not reached.
NoStreamFound == pc = "exited" /\ vsi = -1

C12_OverrunNotFatal ==
    [][ /\ pc = "L188" => (pc' = "L190" /\ mode' = mode)
        /\ pc = "L190" => (pc' = "J219" /\ nJobs' = nJobs + 1 /\ mode' = mode)
        /\ (pc = "L191" /\ pc' # "L188") => do_exit # 0 ]_vars

\* C12 witness: a job of a real-time task has been entered in the period
\* whose sleep_next_period() returned a failure.
C12_Witness ==
    /\ pc = "J219"
    /\ "sleep_next_period" \in failed
    /\ mode = "RealTime"

\* C13: main returns with "No stream found" only when the input has no video
\* stream; when it has one, vsi is the index of the first video stream once
\* the check of line 131 is passed, and main goes on to line 135.
C13_NoStreamIffNoVideo ==
    /\ NoStreamFound => FirstVideo(streams) = -1
    /\ pc = "L135" => (vsi >= 0 /\ vsi = FirstVideo(streams))

\* C14: started with argc < 2, the process exits with a non-zero status and
\* has made no scheduler call.
C14_UsageExitsNonZero ==
    (argc < 2 /\ Exited) => (ExitStatus # 0 /\ called = {})

\* C15 as claimed: no execution of main takes the branch of lines 132-133
\* that prints "No stream found" and returns -1.
C15_BranchUnreachable ==
    ~NoStreamFound

\* C15 as amended: every execution that reaches the check of line 131 takes
\* the "No stream found" branch, whatever the search found: the step from
\* line 131 sets vsi to -1 and returns -1, and line 135 is not reached.
C15_BranchAlwaysTaken ==
    [][pc = "L131" => (pc' = "exited" /\ exitCode' = -1 /\ vsi' = -1)]_vars

\* C15 witness: main has returned at line 133 for an input that has a video
\* stream.
C15_Witness ==
    NoStreamFound /\ FirstVideo(streams) >= 0

\* C16: the task is in background mode until task_mode(LITMUS_RT_TASK) is
\* called, and its mode changes only in the step of line 176 or in the
\* task_mode(BACKGROUND_TASK) call of line 198.
C16_ModeChangesOnlyAtTaskMode ==
    /\ []("task_mode_rt" \notin called => mode = "Background")
    /\ [][mode' # mode => \/ pc = "L176" /\ pc' = "L188"
                          \/ pc = "L191" /\ bgCalls' = bgCalls + 1]_vars

\* C16 witness: the task entered real-time mode and is still in it after a
\* wait and a whole job.
C16_Witness ==
    mode = "RealTime" /\ nRet >= 1 /\ pc = "L188"

====
